---- MODULE Spec2Model ----
(***************************************************************************)
(* A model of pizzazz: the audio-to-sheet-music transcription functions of *)
(* audio_processor.py and the upload handler of app.py.                    *)
(*                                                                         *)
(* Units.  MIDI pitches that may be fractional are integers in cents       *)
(* (1/100 semitone).  Salience is a rational [num, den].  Python floats    *)
(* that are multiplied and divided (durations, beat lengths) are binary    *)
(* floating-point numbers of Precision significant bits, rounded to        *)
(* nearest, ties to even, as IEEE-754 doubles are with 53 bits.            *)
(***************************************************************************)
EXTENDS Integers, Sequences, FiniteSets, TLC

\* quantize_duration and the quarter length computed from it.
VARIABLES qpc, duration, base_note_length, quantized_duration, quarter_length

quantVars == <<qpc, duration, base_note_length, quantized_duration, quarter_length>>

\* adjust_pitch, applied once and then to its own result.
VARIABLES ppc, midi_in, adjusted, adjusted_again

pitchVars == <<ppc, midi_in, adjusted, adjusted_again>>

\* split_notes_by_clef on one note.
VARIABLES cpc, clef_note, clef_mag, clef_out

clefVars == <<cpc, clef_note, clef_mag, clef_out>>

\* find_simultaneous_notes on one frame.
VARIABLES fpc, frame_pitches, frame_magnitudes, threshold, notes

frameVars == <<fpc, frame_pitches, frame_magnitudes, threshold, notes>>

\* The onset loop of process_audio_to_sheet_music.
VARIABLES lpc, pitches, magnitudes, onset_frames, beat_length, i,
          treble_part, bass_part, output_xml, emitted, dropped

loopVars == <<lpc, pitches, magnitudes, onset_frames, beat_length, i,
              treble_part, bass_part, output_xml, emitted, dropped>>

\* upload_file serving concurrent requests.
VARIABLES pc, req_filename, req_sound, uploads, static_output, loaded, tempo, score, response

serverVars == <<pc, req_filename, req_sound, uploads, static_output, loaded, tempo, score, response>>

vars == <<quantVars, pitchVars, clefVars, frameVars, loopVars, serverVars>>

exceptQuant == <<pitchVars, clefVars, frameVars, loopVars, serverVars>>

exceptPitch == <<quantVars, clefVars, frameVars, loopVars, serverVars>>

exceptClef == <<quantVars, pitchVars, frameVars, loopVars, serverVars>>

exceptFrame == <<quantVars, pitchVars, clefVars, loopVars, serverVars>>

exceptLoop == <<quantVars, pitchVars, clefVars, frameVars, serverVars>>

exceptServer == <<quantVars, pitchVars, clefVars, frameVars, loopVars>>

(***************************************************************************)
(* Binary floating point.  A float is [m |-> mantissa, e |-> exponent],    *)
(* value m * 2^e, with 2^(Precision-1) <= m < 2^Precision, or m = 0.       *)
(***************************************************************************)
Precision == 4

Pow2(n) == 2 ^ n

MantLo == Pow2(Precision - 1)

MantHi == Pow2(Precision)

FZero == [m |-> 0, e |-> 0]

\* The numerator and denominator of (N / D) / 2^e as integers.
ScaledNum(N, e) == IF e < 0 THEN N * Pow2(0 - e) ELSE N

ScaledDen(D, e) == IF e > 0 THEN D * Pow2(e) ELSE D

\* floor(log2(n)) for 1 <= n < 2^30, by bisection.
ILog2(n) ==
    IF n < 32768
    THEN IF n < 256
         THEN IF n < 16
              THEN IF n < 4
                   THEN IF n < 2
                        THEN 0
                        ELSE 1
                   ELSE IF n < 8
                        THEN 2
                        ELSE 3
              ELSE IF n < 64
                   THEN IF n < 32
                        THEN 4
                        ELSE 5
                   ELSE IF n < 128
                        THEN 6
                        ELSE 7
         ELSE IF n < 4096
              THEN IF n < 1024
                   THEN IF n < 512
                        THEN 8
                        ELSE 9
                   ELSE IF n < 2048
                        THEN 10
                        ELSE 11
              ELSE IF n < 16384
                   THEN IF n < 8192
                        THEN 12
                        ELSE 13
                   ELSE 14
    ELSE IF n < 8388608
         THEN IF n < 524288
              THEN IF n < 131072
                   THEN IF n < 65536
                        THEN 15
                        ELSE 16
                   ELSE IF n < 262144
                        THEN 17
                        ELSE 18
              ELSE IF n < 2097152
                   THEN IF n < 1048576
                        THEN 19
                        ELSE 20
                   ELSE IF n < 4194304
                        THEN 21
                        ELSE 22
         ELSE IF n < 134217728
              THEN IF n < 33554432
                   THEN IF n < 16777216
                        THEN 23
                        ELSE 24
                   ELSE IF n < 67108864
                        THEN 25
                        ELSE 26
              ELSE IF n < 536870912
                   THEN IF n < 268435456
                        THEN 27
                        ELSE 28
                   ELSE 29

\* The exponent e with 2^(Precision-1) <= (N/D) / 2^e < 2^Precision.
ExponentOf(N, D) ==
    LET e0 == ILog2(N) - ILog2(D) - Precision + 1
    IN  IF ScaledNum(N, e0) < MantLo * ScaledDen(D, e0) THEN e0 - 1 ELSE e0

\* Round A / B to an integer, to nearest, ties to even.
RoundHalfEven(A, B) ==
    LET q == A \div B
        r == A % B
    IN  IF 2 * r > B \/ (2 * r = B /\ q % 2 = 1) THEN q + 1 ELSE q

\* The float nearest to the rational N / D (N >= 0, D > 0).
Fl(N, D) ==
    IF N = 0 THEN FZero
    ELSE LET e == ExponentOf(N, D)
             m == RoundHalfEven(ScaledNum(N, e), ScaledDen(D, e))
         IN  IF m = MantHi THEN [m |-> MantLo, e |-> e + 1]
             ELSE [m |-> m, e |-> e]

\* Two floats as integers over their common (smaller) exponent.
MinExp(a, b) == IF a.e < b.e THEN a.e ELSE b.e

AtExp(a, e) == a.m * Pow2(a.e - e)

Abs(x) == IF x < 0 THEN 0 - x ELSE x

FMul(a, b) ==
    LET e == a.e + b.e
    IN  Fl(ScaledNum(a.m * b.m, 0 - e), ScaledDen(1, 0 - e))

FDiv(a, b) ==
    LET e == a.e - b.e
    IN  Fl(ScaledNum(a.m, 0 - e), ScaledDen(b.m, 0 - e))

\* abs(a - b) as Python computes it: the difference rounded, then its sign dropped.
FAbsDiff(a, b) ==
    LET e == MinExp(a, b)
    IN  Fl(ScaledNum(Abs(AtExp(a, e) - AtExp(b, e)), 0 - e), ScaledDen(1, 0 - e))

FLess(a, b) ==
    LET e == MinExp(a, b)
    IN  AtExp(a, e) < AtExp(b, e)

FMax(a, b) == IF FLess(a, b) THEN b ELSE a

\* The float of k / 8, exact for every k the model uses.
EighthsTable == [k \in 1..32 |-> Fl(k, 8)] \o <<>>

Eighths(k) == EighthsTable[k]

(***************************************************************************)
(* quantize_duration                                                       *)
(***************************************************************************)
\* std_lengths in eighths of a quarter note, in the order of the list.
std_lengths_ascending == <<1, 2, 4, 6, 8, 12, 16, 32>>

std_lengths == <<32, 16, 12, 8, 6, 4, 2, 1>>

\* key=lambda x: abs(x - duration_in_quarters)
QuantKey(x, duration_in_quarters) == FAbsDiff(Eighths(x), duration_in_quarters)

\* Python's min(seq, key=...): the first element whose key is smallest.
MinByKey(seq, duration_in_quarters) ==
    LET key == [k \in 1..Len(seq) |-> QuantKey(seq[k], duration_in_quarters)] \o <<>>
        k0 == CHOOSE k \in 1..Len(seq) :
                  \A j \in 1..Len(seq) :
                      FLess(key[k], key[j]) \/ (key[k] = key[j] /\ k <= j)
    IN  seq[k0]

closest_duration(d, base) ==
    MinByKey(std_lengths, FDiv(d, base))

quantize_duration(d, base) ==
    FMul(Eighths(closest_duration(d, base)), base)

\* Inputs: positive floats, beat lengths in [1/2, 1), durations from 2^-MinDurExp up to 2^(MaxDurExp+3).
MinDurExp == 7

MaxDurExp == 0

BeatExp == Precision

Mantissas == MantLo..(MantHi - 1)

Durations == {[m |-> m, e |-> e] : m \in Mantissas,
                                    e \in (0 - MinDurExp - Precision + 1)..(MaxDurExp - Precision + 3)}

BeatLengths == {[m |-> m, e |-> 0 - BeatExp] : m \in Mantissas}

InitQuant ==
    /\ qpc = "call"
    /\ duration \in Durations
    /\ base_note_length \in BeatLengths
    /\ quantized_duration = FZero
    /\ quarter_length = FZero

IdleQuant ==
    /\ qpc = "idle"
    /\ duration = FZero
    /\ base_note_length = FZero
    /\ quantized_duration = FZero
    /\ quarter_length = FZero

\* audio_processor.py 178-179: the call and the division back by the beat length.
QuantizeStep ==
    /\ qpc = "call"
    /\ quantized_duration' = quantize_duration(duration, base_note_length)
    /\ quarter_length' = FMax(Eighths(1), FDiv(quantized_duration', base_note_length))
    /\ qpc' = "done"
    /\ UNCHANGED <<duration, base_note_length>>
    /\ UNCHANGED exceptQuant

NextQuant == QuantizeStep

\* |k/8 - q| for a float q, as an integer over the exponent they share.
DistToEighths(k, q) ==
    LET e == IF q.e < 0 - 3 THEN q.e ELSE 0 - 3
    IN  Abs(k * Pow2(0 - 3 - e) - AtExp(q, e))

\* |k/8 - d/b| for floats d and b, times 8b, as an integer over the exponent they share.
DistToRatio(k, d, b) ==
    LET e == MinExp(d, b)
    IN  Abs(k * AtExp(b, e) - 8 * AtExp(d, e))

\* The set of the claim, in eighths; it is listed in descending order.
StandardEighths == {32, 16, 12, 8, 6, 4, 2, 1}

PowerOfTwoEighths == {32, 16, 8, 4, 2, 1}

NearestToFloat(q) ==
    CHOOSE x \in StandardEighths : \A y \in StandardEighths :
        \/ DistToEighths(x, q) < DistToEighths(y, q)
        \/ (DistToEighths(x, q) = DistToEighths(y, q) /\ x >= y)

NearestToRatio(d, b) ==
    CHOOSE x \in StandardEighths : \A y \in StandardEighths :
        \/ DistToRatio(x, d, b) < DistToRatio(y, d, b)
        \/ (DistToRatio(x, d, b) = DistToRatio(y, d, b) /\ x >= y)

\* C3 (as stated): quantize_duration(d, b) / b is the element of {4, 2, 1.5, 1, 0.75,
\* 0.5, 0.25, 0.125} nearest to d / b, the earliest-listed element winning exact ties,
\* and so is always a member of that set.
C3_QuotientIsNearestMember ==
    qpc = "done" =>
        FDiv(quantized_duration, base_note_length) = Eighths(NearestToRatio(duration, base_note_length))

\* C3 (amended): quantize_duration(d, b) is the floating-point product of b and the
\* element nearest to the computed quotient d / b, the earliest-listed element winning
\* exact ties; dividing it by b again gives that element exactly when the element is a
\* power of two.
C3_ProductOfNearest ==
    qpc = "done" =>
        LET x == NearestToFloat(FDiv(duration, base_note_length))
        IN  /\ quantized_duration = FMul(Eighths(x), base_note_length)
            /\ x \in PowerOfTwoEighths =>
                   FDiv(quantized_duration, base_note_length) = Eighths(x)

\* C3 witness: a quotient of exactly 3, tied between 4 and 2, was quantized to 4 beats.
C3_TieQuantized ==
    /\ qpc = "done"
    /\ DistToEighths(32, FDiv(duration, base_note_length)) = DistToEighths(16, FDiv(duration, base_note_length))
    /\ quantized_duration = FMul(Eighths(32), base_note_length)

(***************************************************************************)
(* adjust_pitch.  A fractional MIDI pitch is an integer number of cents.   *)
(***************************************************************************)
piano_notes == <<21, 23, 24, 26, 28, 29, 31, 33, 35, 36, 38, 40, 41, 43, 45,
                 47, 48, 50, 52, 53, 55, 57, 59, 60, 62, 64, 65, 67, 69, 71,
                 72, 74, 76, 77, 79, 81, 83, 84, 86, 88, 89, 91, 93, 95, 96, 108>>

\* min(piano_notes, key=lambda x: abs(x - midi_note)): the first nearest entry.
NearestPianoNote(midi_cents) ==
    LET Key(k) == Abs(100 * piano_notes[k] - midi_cents)
        k0 == CHOOSE k \in 1..Len(piano_notes) :
                  \A j \in 1..Len(piano_notes) :
                      Key(k) < Key(j) \/ (Key(k) = Key(j) /\ k <= j)
    IN  piano_notes[k0]

\* The variant whose sharp-B test has the wrong sign on its bound.
adjust_pitch_wrong_sign(midi_cents) ==
    LET semitone == RoundHalfEven(midi_cents, 100)
        cents_diff == midi_cents - 100 * semitone
        note_in_octave == semitone % 12
    IN  IF Abs(cents_diff) < 40
        THEN IF note_in_octave = 11 /\ cents_diff > 0 - 20 THEN semitone + 1
             ELSE IF note_in_octave = 0 /\ cents_diff < 0 - 20 THEN semitone - 1
             ELSE semitone
        ELSE NearestPianoNote(midi_cents)

adjust_pitch(midi_cents) ==
    LET semitone == RoundHalfEven(midi_cents, 100)
        cents_diff == midi_cents - 100 * semitone
        note_in_octave == semitone % 12
    IN  IF Abs(cents_diff) < 40
        THEN IF note_in_octave = 11 /\ cents_diff > 20 THEN semitone + 1
             ELSE IF note_in_octave = 0 /\ cents_diff < 0 - 20 THEN semitone - 1
             ELSE semitone
        ELSE NearestPianoNote(midi_cents)

\* The deviation of a pitch in cents from its rounded semitone.
Deviation(midi_cents) == midi_cents - 100 * RoundHalfEven(midi_cents, 100)

PitchLo == 20

PitchHi == 109

\* Inputs in whole cents.  A deviation of exactly 20 or 40 cents is left out: no
\* binary float is exactly that far from an integer, and which side of the
\* comparison such an input falls on is decided by its own rounding.
PitchInputs ==
    {c \in (100 * PitchLo)..(100 * PitchHi) : Abs(Deviation(c)) \notin {20, 40}}

InitPitch ==
    /\ ppc = "call"
    /\ midi_in \in PitchInputs
    /\ adjusted = 0
    /\ adjusted_again = 0

IdlePitch ==
    /\ ppc = "idle"
    /\ midi_in = 0
    /\ adjusted = 0
    /\ adjusted_again = 0

AdjustStep ==
    /\ ppc = "call"
    /\ adjusted' = adjust_pitch(midi_in)
    /\ ppc' = "done"
    /\ UNCHANGED <<midi_in, adjusted_again>>
    /\ UNCHANGED exceptPitch

\* The corrector applied to its own (integer) result.
AdjustAgainStep ==
    /\ ppc = "done"
    /\ adjusted_again' = adjust_pitch(100 * adjusted)
    /\ ppc' = "twice"
    /\ UNCHANGED <<midi_in, adjusted>>
    /\ UNCHANGED exceptPitch

NextPitch == AdjustStep \/ AdjustAgainStep

\* C4: when the deviation exceeds 40 cents, adjust_pitch returns the key nearest to the
\* raw pitch among the full 88-key set, every integer from 21 to 108.
C4_SnapsToNearestOf88Keys ==
    (ppc \in {"done", "twice"} /\ Abs(Deviation(midi_in)) > 40) =>
        /\ adjusted \in 21..108
        /\ \A key \in 21..108 :
               Abs(100 * adjusted - midi_in) <= Abs(100 * key - midi_in)

\* C5: for every integer MIDI pitch n, pitch classes B and C included,
\* adjust_pitch(n) = n and adjust_pitch(adjust_pitch(n)) = adjust_pitch(n).
C5_IdentityOnSemitones ==
    (midi_in % 100 = 0) =>
        /\ ppc \in {"done", "twice"} => 100 * adjusted = midi_in
        /\ ppc = "twice" => adjusted_again = adjusted

\* C5 witness: an exact B and an exact C have each been corrected twice.
C5_ExactBCorrectedTwice ==
    /\ ppc = "twice"
    /\ midi_in % 100 = 0
    /\ (midi_in \div 100) % 12 = 11
    /\ adjusted_again = midi_in \div 100

(***************************************************************************)
(* split_notes_by_clef.  A magnitude (salience) is a rational number,      *)
(* [num |-> n, den |-> d] with d > 0.                                      *)
(***************************************************************************)
MIDDLE_C == 60

TRANSITION_RANGE == 7

Ratio(n, d) == [num |-> n, den |-> d]

SameRatio(a, b) == a.num * b.den = b.num * a.den

\* magnitude > 0.4
ExceedsFourTenths(magnitude) == 10 * magnitude.num > 4 * magnitude.den

\* The variant whose upper test is strict.
split_notes_by_clef_strict(midi_note, magnitude) ==
    IF midi_note > MIDDLE_C + TRANSITION_RANGE THEN <<"treble", midi_note, magnitude>>
    ELSE IF midi_note < MIDDLE_C - TRANSITION_RANGE THEN <<"bass", midi_note, magnitude>>
    ELSE IF ExceedsFourTenths(magnitude) THEN <<"treble", midi_note, magnitude>>
    ELSE <<"bass", midi_note, magnitude>>

split_notes_by_clef(midi_note, magnitude) ==
    IF midi_note >= MIDDLE_C + TRANSITION_RANGE THEN <<"treble", midi_note, magnitude>>
    ELSE IF midi_note < MIDDLE_C - TRANSITION_RANGE THEN <<"bass", midi_note, magnitude>>
    ELSE IF ExceedsFourTenths(magnitude) THEN <<"treble", midi_note, magnitude>>
    ELSE <<"bass", midi_note, magnitude>>

\* 0.4 itself is left out: it is not a binary float.
Saliences == {Ratio(0, 1), Ratio(3, 10), Ratio(41, 100), Ratio(1, 2), Ratio(1, 1)}

InitClef ==
    /\ cpc = "call"
    /\ clef_note \in PitchLo..PitchHi
    /\ clef_mag \in Saliences
    /\ clef_out = <<>>

IdleClef ==
    /\ cpc = "idle"
    /\ clef_note = 0
    /\ clef_mag = Ratio(0, 1)
    /\ clef_out = <<>>

ClefStep ==
    /\ cpc = "call"
    /\ clef_out' = split_notes_by_clef(clef_note, clef_mag)
    /\ cpc' = "done"
    /\ UNCHANGED <<clef_note, clef_mag>>
    /\ UNCHANGED exceptClef

NextClef == ClefStep

\* C6 (as stated): MIDI 67 with salience 0.5 goes to treble, MIDI 67 with salience 0.3
\* goes to bass, and MIDI 72 goes to treble for every salience.
C6_Boundary67BySalience ==
    cpc = "done" =>
        /\ (clef_note = 67 /\ SameRatio(clef_mag, Ratio(1, 2))) => clef_out[1] = "treble"
        /\ (clef_note = 67 /\ SameRatio(clef_mag, Ratio(3, 10))) => clef_out[1] = "bass"
        /\ clef_note = 72 => clef_out[1] = "treble"

\* C6 (amended): MIDI 67 goes to treble with salience 0.5 and with salience 0.3 alike
\* (67 is the first pitch above the band), and MIDI 72 goes to treble for every salience.
C6_Boundary67AlwaysTreble ==
    cpc = "done" =>
        /\ (clef_note = 67 /\ SameRatio(clef_mag, Ratio(1, 2))) => clef_out[1] = "treble"
        /\ (clef_note = 67 /\ SameRatio(clef_mag, Ratio(3, 10))) => clef_out[1] = "treble"
        /\ clef_note = 72 => clef_out[1] = "treble"

\* C6 witness: MIDI 67 with salience 0.3 has been routed, to treble.
C6_Routed67Quiet ==
    /\ cpc = "done"
    /\ clef_note = 67
    /\ SameRatio(clef_mag, Ratio(3, 10))
    /\ clef_out = <<"treble", 67, clef_mag>>

(***************************************************************************)
(* find_simultaneous_notes.  A matrix is a function from frame index to a  *)
(* column, a sequence with one entry per frequency bin: a frequency in Hz  *)
(* in pitches, a non-negative integer in magnitudes.  A normalized         *)
(* magnitude is the rational magnitude / max_magnitude; a threshold is in  *)
(* thousandths.                                                            *)
(***************************************************************************)
\* librosa.hz_to_midi, 69 + 12 * log2(f / 440), in cents, for the frequencies used.
hz_to_midi(f) ==
    CASE f = 196 -> 5500
      [] f = 208 -> 5603
      [] f = 220 -> 5700
      [] f = 262 -> 6002
      [] f = 440 -> 6900

SeqMax(seq) == CHOOSE x \in {seq[k] : k \in 1..Len(seq)} : \A k \in 1..Len(seq) : seq[k] <= x

\* The variant that looks at the left neighbour only.
is_peak_left_only(column, bin) ==
    ~ (bin > 1 /\ 10 * column[bin - 1] > 12 * column[bin])

\* Lines 51-55, with both sides of each comparison times max_magnitude.
is_peak(column, bin) ==
    /\ ~ (bin > 1 /\ 10 * column[bin - 1] > 12 * column[bin])
    /\ ~ (bin < Len(column) /\ 10 * column[bin + 1] > 12 * column[bin])

find_simultaneous_notes(pitch_matrix, magnitude_matrix, frame_idx, thr) ==
    LET column == magnitude_matrix[frame_idx]
        max_magnitude == SeqMax(column)
        n == Len(column)
        \* strongest_peak (empty: None) and strongest_mag (times max_magnitude) after bin k
        scan[k \in 0..n] ==
            IF k = 0 THEN [strongest_peak |-> <<>>, strongest_mag |-> 0]
            ELSE IF /\ 1000 * column[k] > thr * max_magnitude
                    /\ pitch_matrix[frame_idx][k] > 0
                    /\ is_peak(column, k)
                    /\ column[k] > scan[k - 1].strongest_mag
                 THEN [strongest_peak |->
                           <<  <<RoundHalfEven(hz_to_midi(pitch_matrix[frame_idx][k]), 100),
                                 Ratio(column[k], max_magnitude)>>  >>,
                       strongest_mag |-> column[k]]
                 ELSE scan[k - 1]
    IN  IF max_magnitude = 0 THEN <<>> ELSE scan[n].strongest_peak

NBins == 3

FrameFreqs == {0, 220, 262}

\* No two of these are exactly 1.2 apart in ratio, nor exactly at a threshold.
FrameMags == {0, 1, 60, 80, 100}

Thresholds == {15, 20}

InitFrame ==
    /\ fpc = "call"
    /\ frame_pitches \in [{0} -> [1..NBins -> FrameFreqs]]
    /\ frame_magnitudes \in [{0} -> [1..NBins -> FrameMags]]
    /\ threshold \in Thresholds
    /\ notes = <<>>

IdleFrame ==
    /\ fpc = "idle"
    /\ frame_pitches = <<>>
    /\ frame_magnitudes = <<>>
    /\ threshold = 0
    /\ notes = <<>>

FindNotesStep ==
    /\ fpc = "call"
    /\ notes' = find_simultaneous_notes(frame_pitches, frame_magnitudes, 0, threshold)
    /\ fpc' = "done"
    /\ UNCHANGED <<frame_pitches, frame_magnitudes, threshold>>
    /\ UNCHANGED exceptFrame

NextFrame == FindNotesStep

\* The bins of the frame that qualify as peaks, stated on the normalized magnitudes.
QualifyingBins ==
    LET m == frame_magnitudes[0]
        top == SeqMax(m)
    IN  {b \in 1..NBins :
            /\ 1000 * m[b] > threshold * top
            /\ frame_pitches[0][b] > 0
            /\ \A j \in {b - 1, b + 1} \cap (1..NBins) : 10 * m[j] <= 12 * m[b]}

\* C8: find_simultaneous_notes returns at most one candidate; none when the frame's
\* maximum salience is 0; otherwise the highest-normalized-salience bin among the
\* qualifying peaks, and none only if no bin qualifies.
C8_SingleStrongestPeak ==
    fpc = "done" =>
        /\ Len(notes) <= 1
        /\ SeqMax(frame_magnitudes[0]) = 0 => notes = <<>>
        /\ SeqMax(frame_magnitudes[0]) > 0 =>
               /\ notes = <<>> <=> QualifyingBins = {}
               /\ notes # <<>> =>
                      \E b \in QualifyingBins :
                          /\ notes[1][1] = RoundHalfEven(hz_to_midi(frame_pitches[0][b]), 100)
                          /\ notes[1][2] = Ratio(frame_magnitudes[0][b], SeqMax(frame_magnitudes[0]))
                          /\ \A j \in QualifyingBins :
                                 frame_magnitudes[0][j] <= frame_magnitudes[0][b]

\* C8 witness: several bins qualify, a louder bin does not, and one candidate came back.
C8_ChoseAmongSeveralPeaks ==
    /\ fpc = "done"
    /\ Cardinality(QualifyingBins) >= 2
    /\ \E b \in 1..NBins : b \notin QualifyingBins /\ frame_magnitudes[0][b] = SeqMax(frame_magnitudes[0])
    /\ Len(notes) = 1

(***************************************************************************)
(* The note detection loop of process_audio_to_sheet_music.  Times are in  *)
(* frames (one hop of 32 samples at 44100 Hz); pitches and magnitudes are  *)
(* the matrices librosa.piptrack returned.                                 *)
(***************************************************************************)
\* The members of a set of integers in ascending order: sorted(notes_set).
sorted(S) ==
    CHOOSE seq \in [1..Cardinality(S) -> S] :
        \A a, b \in 1..Cardinality(S) : a < b => seq[a] < seq[b]

\* The variant with the gap test one too small.
too_close_below_one(midi_note, prev_midi) ==
    /\ prev_midi # <<>>
    /\ prev_midi[1] # 0
    /\ Abs(midi_note - prev_midi[1]) < 1

\* if prev_midi and abs(midi_note - prev_midi) < 2; prev_midi is <<>> for None.
too_close(midi_note, prev_midi) ==
    /\ prev_midi # <<>>
    /\ prev_midi[1] # 0
    /\ Abs(midi_note - prev_midi[1]) < 2

\* librosa.time_to_frames(librosa.frames_to_time(f)): frame f as a time, f * 32 / 44100.0,
\* times 44100 and truncated, floor-divided by 32.  The product falls just short of
\* 32 * f for some f (15, 23, 30, ...), and the result is then f - 1.
time_to_frames(f) == IF f = 0 THEN {0} ELSE {f, f - 1}

\* The candidates of one onset: for offset 0, then -1, the frame's strongest peak.
FrameNotes(P, M, check_idx, shape1) ==
    IF 0 <= check_idx /\ check_idx < shape1
    THEN find_simultaneous_notes(P, M, check_idx, 15)
    ELSE <<>>

\* Lines 195-209: the scan of sorted(notes_set), appending to the parts in st.
ScanNotes(cands, qlen, onset, st) ==
    LET order == sorted({c[1] : c \in cands})
        saliences(midi) == {c[2] : c \in {x \in cands : x[1] = midi}}
        scan[k \in 0..Len(order)] ==
            IF k = 0
            THEN [prev_midi |-> <<>>, treble |-> st.treble, bass |-> st.bass,
                  emitted |-> st.emitted, dropped |-> st.dropped]
            ELSE LET before == scan[k - 1]
                     midi_note == order[k]
                     adjusted_note == midi_note   \* int(round(midi_note)) of an int
                     n == [pitch |-> adjusted_note, quarterLength |-> qlen]
                 IN  IF too_close(midi_note, before.prev_midi)
                     THEN [before EXCEPT !.dropped = @ \cup
                               {[onset |-> onset, midi |-> midi_note,
                                 prev |-> before.prev_midi[1]]}]
                     ELSE IF adjusted_note >= 60
                     THEN [before EXCEPT
                               !.treble = Append(@, n),
                               !.prev_midi = <<adjusted_note>>,
                               !.emitted = @ \cup
                                   {[onset |-> onset, midi |-> adjusted_note, staff |-> "treble",
                                     position |-> k, saliences |-> saliences(midi_note)]}]
                     ELSE [before EXCEPT
                               !.bass = Append(@, n),
                               !.prev_midi = <<adjusted_note>>,
                               !.emitted = @ \cup
                                   {[onset |-> onset, midi |-> adjusted_note, staff |-> "bass",
                                     position |-> k, saliences |-> saliences(midi_note)]}]
    IN  scan[Len(order)]

\* Lines 161-168: each part starts with its clef and the time signature.
NewTreblePart == <<"TrebleClef", "4/4">>

NewBassPart == <<"BassClef", "4/4">>

NFrames == 2

MaxOnsets == 2

\* What each bin of a piptrack column can hold: nothing (frequency 0, magnitude 0),
\* or a frequency estimate near the bin's centre with a positive magnitude.
BinFreqs == <<{196, 208}, {220, 262}>>

PipMags == {100}

PipBins(k) == {<<0, 0>>} \cup (BinFreqs[k] \X PipMags)

PipColumns == {<< <<b1[1], b2[1]>>, <<b1[2], b2[2]>> >> : b1 \in PipBins(1), b2 \in PipBins(2)}

\* Strictly increasing onset frames, of which the last may lie past the matrices.
OnsetSequences ==
    UNION {{seq \in [1..n -> 0..NFrames] : \A a, b \in 1..n : a < b => seq[a] < seq[b]}
           : n \in 0..MaxOnsets}

LoopBeats == {Fl(3, 2), Fl(2, 1)}

InitLoop ==
    /\ lpc = "loop"
    /\ \E analysis \in [0..(NFrames - 1) -> PipColumns] :
           /\ pitches = [f \in 0..(NFrames - 1) |-> analysis[f][1]]
           /\ magnitudes = [f \in 0..(NFrames - 1) |-> analysis[f][2]]
    /\ onset_frames \in OnsetSequences
    /\ beat_length \in LoopBeats
    /\ i = 1
    /\ treble_part = NewTreblePart
    /\ bass_part = NewBassPart
    /\ output_xml = <<>>
    /\ emitted = {}
    /\ dropped = {}

IdleLoop ==
    /\ lpc = "idle"
    /\ pitches = <<>>
    /\ magnitudes = <<>>
    /\ onset_frames = <<>>
    /\ beat_length = FZero
    /\ i = 0
    /\ treble_part = <<>>
    /\ bass_part = <<>>
    /\ output_xml = <<>>
    /\ emitted = {}
    /\ dropped = {}

\* One iteration of the loop of lines 171-209.
OnsetStep ==
    /\ lpc = "loop"
    /\ i <= Len(onset_frames)
    /\ \E frame_idx \in time_to_frames(onset_frames[i]) :
           LET gap == IF i < Len(onset_frames)
                      THEN FAbsDiff(Fl(onset_frames[i + 1], 1), Fl(onset_frames[i], 1))
                      ELSE beat_length
               qlen == FMax(Eighths(1), FDiv(quantize_duration(gap, beat_length), beat_length))
               shape1 == NFrames
               found == FrameNotes(pitches, magnitudes, frame_idx, shape1)
                            \o FrameNotes(pitches, magnitudes, frame_idx - 1, shape1)
               after == ScanNotes({found[k] : k \in 1..Len(found)}, qlen, i,
                                  [treble |-> treble_part, bass |-> bass_part,
                                   emitted |-> emitted, dropped |-> dropped])
           IN  IF frame_idx >= shape1
               THEN UNCHANGED <<treble_part, bass_part, emitted, dropped>>
               ELSE /\ treble_part' = after.treble
                    /\ bass_part' = after.bass
                    /\ emitted' = after.emitted
                    /\ dropped' = after.dropped
    /\ i' = i + 1
    /\ UNCHANGED <<lpc, pitches, magnitudes, onset_frames, beat_length, output_xml>>
    /\ UNCHANGED exceptLoop

\* Lines 211-221: the parts go into the score, the score into static/output.musicxml.
WriteScoreStep ==
    /\ lpc = "loop"
    /\ i > Len(onset_frames)
    /\ output_xml' = <<treble_part, bass_part>>
    /\ lpc' = "done"
    /\ UNCHANGED <<pitches, magnitudes, onset_frames, beat_length, i,
                   treble_part, bass_part, emitted, dropped>>
    /\ UNCHANGED exceptLoop

NextLoop == OnsetStep \/ WriteScoreStep

\* C2: every emitted note is on the staff split_notes_by_clef gives for its pitch and
\* originating salience.
C2_StaffFollowsClefRule ==
    \A e \in emitted : \A sal \in e.saliences :
        e.staff = split_notes_by_clef(e.midi, sal)[1]

\* C9 (as stated): any two notes emitted for the same onset differ by more than 2
\* semitones, a candidate within 2 of the preceding accepted one being discarded.
C9_SameOnsetMoreThanTwoApart ==
    \A a, b \in emitted :
        (a.onset = b.onset /\ a.position < b.position) => b.midi - a.midi > 2

\* C9 (amended): candidates are scanned in ascending order and one is discarded if it
\* lies less than 2 semitones above the preceding accepted one; any two notes emitted
\* for the same onset differ by at least 2 semitones.
C9_SameOnsetAtLeastTwoApart ==
    /\ \A a, b \in emitted :
           (a.onset = b.onset /\ a.position < b.position) => b.midi - a.midi >= 2
    /\ \A d \in dropped :
           /\ d.midi - d.prev \in {0, 1}
           /\ \E a \in emitted : a.onset = d.onset /\ a.midi = d.prev

\* C9 witness: one onset has two emitted notes exactly 2 semitones apart.
C9_TwoApartBothEmitted ==
    \E a, b \in emitted : a.onset = b.onset /\ b.midi - a.midi = 2

(***************************************************************************)
(* upload_file, serving requests concurrently (app.run is threaded), each  *)
(* request running process_audio_to_sheet_music on the file it saved.      *)
(***************************************************************************)
NumRequests == 2

Requests == 1..NumRequests

RawFilenames == {"a.wav", "../a.wav", "b.wav", "notes.txt"}

\* werkzeug's secure_filename: path separators and leading dots are dropped.
secure_filename(name) == IF name = "../a.wav" THEN "a.wav" ELSE name

ALLOWED_EXTENSIONS == {"mp3", "wav", "ogg"}

\* filename.rsplit('.', 1)[1].lower()
Extension(name) == IF name = "notes.txt" THEN "txt" ELSE "wav"

allowed_file(name) == Extension(name) \in ALLOWED_EXTENSIONS

UploadPaths == {secure_filename(name) : name \in {n \in RawFilenames : allowed_file(n)}}

\* What an uploaded file can hold: bytes that do not decode, silence, or a tone.
Sounds == {"corrupt", "silent", "a4", "g3"}

\* What librosa's analysis of a sound gives the loop: onsets, piptrack's matrices.
Analysis(sound) ==
    CASE sound = "silent" ->
            [onset_frames |-> <<>>, P |-> (0 :> <<0, 0>>), M |-> (0 :> <<0, 0>>)]
      [] sound = "a4" ->
            [onset_frames |-> <<0>>, P |-> (0 :> <<0, 440>>), M |-> (0 :> <<0, 100>>)]
      [] sound = "g3" ->
            [onset_frames |-> <<0>>, P |-> (0 :> <<196, 0>>), M |-> (0 :> <<100, 0>>)]

\* librosa.beat.tempo of a sound's onset envelope, in beats per time unit.  For
\* silence the envelope is all zero and the estimate is whatever the library's
\* prior gives, or zero; no value makes get_tempo_and_beats raise.
TempoEstimates(sound) ==
    IF sound = "silent" THEN {FZero, Fl(1, 2)} ELSE {Fl(1, 2)}

\* get_tempo_and_beats: 60.0 / tempo, which for a numpy zero is inf, not an error.
get_tempo_and_beats(t) ==
    IF t = FZero THEN [tempo |-> t, inf |-> TRUE, beat_length |-> FZero]
    ELSE [tempo |-> t, inf |-> FALSE, beat_length |-> FDiv(Fl(1, 1), t)]

\* Lines 159-212 on the analysis of one sound: at most one onset, at frame 0.
Transcribe(sound, beat) ==
    LET a == Analysis(sound)
        start == [treble |-> NewTreblePart, bass |-> NewBassPart,
                  emitted |-> {}, dropped |-> {}]
        found == FrameNotes(a.P, a.M, 0, 1) \o FrameNotes(a.P, a.M, 0 - 1, 1)
        qlen == FMax(Eighths(1), FDiv(quantize_duration(beat, beat), beat))
        after == IF a.onset_frames = <<>> THEN start
                 ELSE ScanNotes({found[k] : k \in 1..Len(found)}, qlen, 1, start)
    IN  <<after.treble, after.bass>>

EmptyScore == <<NewTreblePart, NewBassPart>>

InitServer ==
    /\ pc = [r \in Requests |-> "start"]
    /\ req_filename \in [Requests -> RawFilenames]
    /\ req_sound \in [Requests -> Sounds]
    /\ uploads = [path \in UploadPaths |-> <<>>]
    /\ static_output = <<>>
    /\ loaded = [r \in Requests |-> <<>>]
    /\ tempo = [r \in Requests |-> <<>>]
    /\ score = [r \in Requests |-> <<>>]
    /\ response = [r \in Requests |-> <<>>]

IdleServer ==
    /\ pc = <<>>
    /\ req_filename = <<>>
    /\ req_sound = <<>>
    /\ uploads = <<>>
    /\ static_output = <<>>
    /\ loaded = <<>>
    /\ tempo = <<>>
    /\ score = <<>>
    /\ response = <<>>

filepath(r) == secure_filename(req_filename[r])

\* app.py 28, 42: a file of another extension is not saved; the page is rendered.
RejectStep(r) ==
    /\ pc[r] = "start"
    /\ ~ allowed_file(req_filename[r])
    /\ pc' = [pc EXCEPT ![r] = "page"]
    /\ UNCHANGED <<req_filename, req_sound, uploads, static_output, loaded, tempo, score, response>>
    /\ UNCHANGED exceptServer

\* app.py 28-31: file.save(filepath) writes the upload, replacing what was there.
SaveStep(r) ==
    /\ pc[r] = "start"
    /\ allowed_file(req_filename[r])
    /\ uploads' = [uploads EXCEPT ![filepath(r)] = <<[by |-> r, sound |-> req_sound[r]]>>]
    /\ pc' = [pc EXCEPT ![r] = "load"]
    /\ UNCHANGED <<req_filename, req_sound, static_output, loaded, tempo, score, response>>
    /\ UNCHANGED exceptServer

\* audio_processor.py 82: librosa.load raises on a missing or undecodable file, and
\* the exception leaves upload_file before os.remove.
LoadStep(r) ==
    /\ pc[r] = "load"
    /\ IF uploads[filepath(r)] = <<>> \/ uploads[filepath(r)][1].sound = "corrupt"
       THEN /\ pc' = [pc EXCEPT ![r] = "error"]
            /\ UNCHANGED loaded
       ELSE /\ loaded' = [loaded EXCEPT ![r] = uploads[filepath(r)]]
            /\ pc' = [pc EXCEPT ![r] = "transcribe"]
    /\ UNCHANGED <<req_filename, req_sound, uploads, static_output, tempo, score, response>>
    /\ UNCHANGED exceptServer

\* audio_processor.py 83-212: the analysis and the loop, on the request's own data.
TranscribeStep(r) ==
    /\ pc[r] = "transcribe"
    /\ \E t \in TempoEstimates(loaded[r][1].sound) :
           LET tb == get_tempo_and_beats(t)
           IN  /\ tempo' = [tempo EXCEPT ![r] = <<tb>>]
               /\ score' = [score EXCEPT ![r] =
                                <<Transcribe(loaded[r][1].sound, tb.beat_length)>>]
    /\ pc' = [pc EXCEPT ![r] = "write"]
    /\ UNCHANGED <<req_filename, req_sound, uploads, static_output, loaded, response>>
    /\ UNCHANGED exceptServer

\* audio_processor.py 214-221: the score is written to static/output.musicxml.
WriteStep(r) ==
    /\ pc[r] = "write"
    /\ static_output' = score[r]
    /\ pc' = [pc EXCEPT ![r] = "remove"]
    /\ UNCHANGED <<req_filename, req_sound, uploads, loaded, tempo, score, response>>
    /\ UNCHANGED exceptServer

\* app.py 37: os.remove(filepath) raises if the file is no longer there.
RemoveStep(r) ==
    /\ pc[r] = "remove"
    /\ IF uploads[filepath(r)] = <<>>
       THEN /\ pc' = [pc EXCEPT ![r] = "error"]
            /\ UNCHANGED uploads
       ELSE /\ uploads' = [uploads EXCEPT ![filepath(r)] = <<>>]
            /\ pc' = [pc EXCEPT ![r] = "send"]
    /\ UNCHANGED <<req_filename, req_sound, static_output, loaded, tempo, score, response>>
    /\ UNCHANGED exceptServer

\* app.py 40: send_file reads static/output.musicxml as it is now.
SendStep(r) ==
    /\ pc[r] = "send"
    /\ response' = [response EXCEPT ![r] = static_output]
    /\ pc' = [pc EXCEPT ![r] = "done"]
    /\ UNCHANGED <<req_filename, req_sound, uploads, static_output, loaded, tempo, score>>
    /\ UNCHANGED exceptServer

\* C1: for every interleaving of two requests, the file sent back to a request is
\* the score its own invocation produced, never the other invocation's output.
C1_ResponseIsOwnScore ==
    \A r \in Requests : pc[r] = "done" => response[r] = score[r]

\* C7: a run on silent input ends in a fatal tempo-estimation error; it never
\* completes by writing and returning an empty score.
C7_SilenceIsRejected ==
    \A r \in Requests :
        (loaded[r] # <<>> /\ loaded[r][1].sound = "silent") =>
            pc[r] \notin {"remove", "send", "done"}

\* C10: from a request's file.save to the end of its processing the upload is the
\* file that request saved, and once the request has finished its upload is gone.
C10_UploadIsOwnThenRemoved ==
    \A r \in Requests :
        /\ pc[r] \in {"load", "transcribe", "write"} =>
               uploads[filepath(r)] = <<[by |-> r, sound |-> req_sound[r]]>>
        /\ pc[r] \in {"done", "error"} =>
               \A path \in UploadPaths : uploads[path] = <<>> \/ uploads[path][1].by # r

NextServer ==
    \E r \in Requests :
        \/ RejectStep(r)
        \/ SaveStep(r)
        \/ LoadStep(r)
        \/ TranscribeStep(r)
        \/ WriteStep(r)
        \/ RemoveStep(r)
        \/ SendStep(r)

(***************************************************************************)
(* One specification per part of the program; the variables of the other   *)
(* parts stay at their idle values.                                         *)
(***************************************************************************)
StartQuant ==
    /\ InitQuant
    /\ IdlePitch
    /\ IdleClef
    /\ IdleFrame
    /\ IdleLoop
    /\ IdleServer

SpecQuant == StartQuant /\ [][NextQuant]_vars

StartPitch ==
    /\ InitPitch
    /\ IdleQuant
    /\ IdleClef
    /\ IdleFrame
    /\ IdleLoop
    /\ IdleServer

SpecPitch == StartPitch /\ [][NextPitch]_vars

StartClef ==
    /\ InitClef
    /\ IdleQuant
    /\ IdlePitch
    /\ IdleFrame
    /\ IdleLoop
    /\ IdleServer

SpecClef == StartClef /\ [][NextClef]_vars

StartFrame ==
    /\ InitFrame
    /\ IdleQuant
    /\ IdlePitch
    /\ IdleClef
    /\ IdleLoop
    /\ IdleServer

SpecFrame == StartFrame /\ [][NextFrame]_vars

StartLoop ==
    /\ InitLoop
    /\ IdleQuant
    /\ IdlePitch
    /\ IdleClef
    /\ IdleFrame
    /\ IdleServer

SpecLoop == StartLoop /\ [][NextLoop]_vars

StartServer ==
    /\ InitServer
    /\ IdleQuant
    /\ IdlePitch
    /\ IdleClef
    /\ IdleFrame
    /\ IdleLoop

SpecServer == StartServer /\ [][NextServer]_vars

====
